---- MODULE Spec2Model ----
(***************************************************************************)
(* State-sequence simulation engine of osl-dynamics:                       *)
(*   src/src/osl_dynamics/simulation/_hmm.py   (classes HMM, MS_HMM_MVN,   *)
(*                                              HierarchicalHMM_MVN)       *)
(*   src/osl_dynamics/array_ops.py             (get_one_hot)               *)
(* The semi-Markov chain HSMM, imported from osl_dynamics.simulation._hsmm *)
(* and not part of these sources, follows section 4.3 of spec.md.          *)
(*                                                                         *)
(* Numbers.  A float is modelled exactly as a pair <<a, b>> that stands    *)
(* for  a/Unit + b * 4e-13 :  a is the numerator of a fraction over Unit,  *)
(* b a count of perturbation units of 4e-13, far below 1/Unit.  The        *)
(* tolerance 1e-12 of HMM.__init__ is 2.5 perturbation units, so sums that *)
(* miss 1 by less than, and by more than, the tolerance both occur; a sum  *)
(* that misses 1 by exactly 1e-12 does not (a float64 sum near 1 differs   *)
(* from 1 by a multiple of 2^-53, which 1e-12 is not).  Inputs are finite  *)
(* numbers; an optional argument is <<>> (None) or <<v>>.                  *)
(***************************************************************************)
EXTENDS Integers, Sequences, FiniteSets, TLC

\* ------------------------------------------------------------------ bounds
MaxStates == 3     \* n_states passed with 'sequence' / 'uniform' is in 1..MaxStates
Denom == 2         \* stay_prob and the entries of explicit arrays are multiples of 1/Denom
MaxPerturb == 2    \* the first row of an explicit array is raised by 0..MaxPerturb units of 4e-13
MaxSamples == 2    \* n_samples is in 0..MaxSamples

\* 1e-12 in half perturbation units: 1e-12 = 2.5 * 4e-13
TolHalfUnits == 5

\* ----------------------------------------------------------------- numbers
RECURSIVE Gcd(_, _)
Gcd(a, b) == IF b = 0 THEN a ELSE Gcd(b, a % b)

RECURSIVE LcmUpTo(_)
LcmUpTo(n) == IF n <= 1 THEN 1 ELSE LET l == LcmUpTo(n - 1) IN (l * n) \div Gcd(l, n)

Max(a, b) == IF a >= b THEN a ELSE b

\* the numerator of 1.0: every k/Denom, every 1/n and every (1 - p)/(n - 1) is exact
Unit == Denom * LcmUpTo(MaxStates)

Zero == <<0, 0>>
One == <<Unit, 0>>
Add(x, y) == <<x[1] + y[1], x[2] + y[2]>>
Sub(x, y) == <<x[1] - y[1], x[2] - y[2]>>
DivInt(x, k) == <<x[1] \div k, x[2] \div k>>
Abs(i) == IF i < 0 THEN -i ELSE i
IsNegative(x) == x[1] < 0 \/ (x[1] = 0 /\ x[2] < 0)
IsPositive(x) == x[1] > 0 \/ (x[1] = 0 /\ x[2] > 0)
LessEq(x, y) == ~IsPositive(Sub(x, y))

\* abs(x) > 1e-12  and  abs(x) < 1e-12
AbsGreaterTol(x) == x[1] # 0 \/ 2 * Abs(x[2]) > TolHalfUnits
AbsLessTol(x) == x[1] = 0 /\ 2 * Abs(x[2]) < TolHalfUnits

RECURSIVE SumSeq(_)
SumSeq(s) == IF s = <<>> THEN Zero ELSE Add(Head(s), SumSeq(Tail(s)))

\* ---------------------------------------------------------------- matrices
\* a 2-D array is a sequence of rows; its shape is <<rows, columns>>
NRows(m) == Len(m)
NCols(m) == IF m = <<>> THEN 0 ELSE Len(m[1])
RowSums(m) == [i \in 1..NRows(m) |-> SumSeq(m[i])]
ColSums(m) == [j \in 1..NCols(m) |-> SumSeq([i \in 1..NRows(m) |-> m[i][j]])]
\* a transpose that leaves the array as it is
Transpose_Identity(m) == m
Transpose(m) == [j \in 1..NCols(m) |-> [i \in 1..NRows(m) |-> m[i][j]]]
OnesMatrix(r, c) == [i \in 1..r |-> [j \in 1..c |-> One]]

\* construct_sequence_trans_prob without the wrap-around entry trans_prob[-1, 0]
construct_sequence_NoWrap(stay_prob, n) ==
    [i \in 1..n |-> [j \in 1..n |->
        IF i = j THEN stay_prob
        ELSE IF j = i + 1 THEN <<Unit - stay_prob[1], -stay_prob[2]>> ELSE <<0, 0>>]]

\* HMM.construct_sequence_trans_prob: the assignments in the order of the code
construct_sequence_trans_prob(stay_prob, n) ==
    LET zeros == [i \in 1..n |-> [j \in 1..n |-> Zero]]
        diag == [i \in 1..n |-> [j \in 1..n |->
                    IF i = j THEN stay_prob ELSE zeros[i][j]]]
        \* fill_diagonal of the view trans_prob[:, 1:], n rows and n-1 columns
        super == [i \in 1..n |-> [j \in 1..n |->
                    IF j = i + 1 THEN Sub(One, stay_prob) ELSE diag[i][j]]]
    IN  [i \in 1..n |-> [j \in 1..n |->
            IF i = n /\ j = 1 THEN Sub(One, stay_prob) ELSE super[i][j]]]

\* construct_uniform_trans_prob sharing 1 - stay_prob among n states, not n - 1
construct_uniform_DivByN(stay_prob, n) ==
    [i \in 1..n |-> [j \in 1..n |->
        IF i = j THEN stay_prob
        ELSE <<(Unit - stay_prob[1]) \div n, (-stay_prob[2]) \div n>>]]

\* HMM.construct_uniform_trans_prob
construct_uniform_trans_prob(stay_prob, n) ==
    LET single_trans_prob == DivInt(Sub(One, stay_prob), n - 1)
        ones == [i \in 1..n |-> [j \in 1..n |-> single_trans_prob]]
    IN  [i \in 1..n |-> [j \in 1..n |-> IF i = j THEN stay_prob ELSE ones[i][j]]]

\* ------------------------------------------------------------ HMM.__init__
Raise(e) == [error |-> e, trans_prob |-> <<>>, warned |-> FALSE]
Stored(m, w) == [error |-> "none", trans_prob |-> m, warned |-> w]

\* InitArray taking the transpose whenever a row fails, the columns unchecked
InitArray_TransposeUnchecked(tp) ==
    IF Len(tp.shape) # 2 THEN Raise("ValueError")
    ELSE IF tp.shape[1] # tp.shape[2] THEN Raise("ValueError")
    ELSE IF \E i \in DOMAIN tp.data : AbsGreaterTol(Sub(SumSeq(tp.data[i]), One))
         THEN Stored([j \in 1..tp.shape[2] |-> [i \in 1..tp.shape[1] |-> tp.data[i][j]]], TRUE)
         ELSE Stored(tp.data, FALSE)

\* InitArray without the check that the array is square
InitArray_NoSquareCheck(tp) ==
    IF Len(tp.shape) # 2 THEN Raise("ValueError")
    ELSE IF \E i \in DOMAIN tp.data : AbsGreaterTol(Sub(SumSeq(tp.data[i]), One))
         THEN Raise("ValueError")
         ELSE Stored(tp.data, FALSE)

\* the branch for an np.ndarray
InitArray(tp) ==
    IF Len(tp.shape) # 2 THEN Raise("ValueError")
    ELSE IF tp.shape[1] # tp.shape[2] THEN Raise("ValueError")
    ELSE LET row_sums == RowSums(tp.data)
             col_sums == ColSums(tp.data)
         IN  IF \E i \in DOMAIN row_sums : AbsGreaterTol(Sub(row_sums[i], One))
             THEN IF \A j \in DOMAIN col_sums : AbsLessTol(Sub(col_sums[j], One))
                  THEN Stored(Transpose(tp.data), TRUE)
                  ELSE Raise("ValueError")
             ELSE Stored(tp.data, FALSE)

\* InitStr with the one-state special case tested after the named generators
InitStr_SpecialCaseLast(tp, stay_prob, n_st) ==
    IF tp.name \notin {"sequence", "uniform"} THEN Raise("ValueError")
    ELSE IF tp.name = "sequence" /\ (stay_prob = <<>> \/ n_st = <<>>) THEN Raise("ValueError")
    ELSE IF tp.name = "uniform" /\ n_st = <<>> THEN Raise("ValueError")
    ELSE IF n_st = <<1>> THEN Stored(OnesMatrix(1, 1), FALSE)
    ELSE IF tp.name = "sequence"
         THEN Stored(construct_sequence_trans_prob(stay_prob[1], n_st[1]), FALSE)
    ELSE LET sp == IF stay_prob = <<>> THEN DivInt(One, n_st[1]) ELSE stay_prob[1]
         IN  Stored(construct_uniform_trans_prob(sp, n_st[1]), FALSE)

\* InitStr giving 'sequence' the default stay_prob that 'uniform' has
InitStr_SequenceDefaultsStayProb(tp, stay_prob, n_st) ==
    IF tp.name \notin {"sequence", "uniform"} THEN Raise("ValueError")
    ELSE IF n_st = <<1>> THEN Stored(OnesMatrix(1, 1), FALSE)
    ELSE IF n_st = <<>> THEN Raise("ValueError")
    ELSE LET sp == IF stay_prob = <<>> THEN DivInt(One, n_st[1]) ELSE stay_prob[1]
         IN  IF tp.name = "sequence"
             THEN Stored(construct_sequence_trans_prob(sp, n_st[1]), FALSE)
             ELSE Stored(construct_uniform_trans_prob(sp, n_st[1]), FALSE)

\* the branch for a str
InitStr(tp, stay_prob, n_st) ==
    IF tp.name \notin {"sequence", "uniform"} THEN Raise("ValueError")
    ELSE IF n_st = <<1>> THEN Stored(OnesMatrix(1, 1), FALSE)
    ELSE IF tp.name = "sequence"
         THEN IF stay_prob = <<>> \/ n_st = <<>>
              THEN Raise("ValueError")
              ELSE Stored(construct_sequence_trans_prob(stay_prob[1], n_st[1]), FALSE)
    ELSE IF n_st = <<>> THEN Raise("ValueError")
    ELSE LET sp == IF stay_prob = <<>> THEN DivInt(One, n_st[1]) ELSE stay_prob[1]
         IN  Stored(construct_uniform_trans_prob(sp, n_st[1]), FALSE)

\* HMM.__init__ up to the point where self.trans_prob is or is not set; a nested
\* list is handed to np.ndarray as a shape, which raises TypeError
InitTransProb(tp, stay_prob, n_st) ==
    IF tp.kind = "list" THEN Raise("TypeError")
    ELSE IF tp.kind = "array" THEN InitArray(tp)
    ELSE IF tp.kind = "str" THEN InitStr(tp, stay_prob, n_st)
    ELSE IF tp.kind = "None" /\ n_st = <<1>> THEN Stored(OnesMatrix(1, 1), FALSE)
    ELSE Stored(<<>>, FALSE)

\* the whole constructor: self.trans_prob.shape[0] of an unset attribute raises
\* AttributeError
InitResult(tp, stay_prob, n_st) ==
    LET r == InitTransProb(tp, stay_prob, n_st)
    IN  IF r.error = "none" /\ r.trans_prob = <<>> THEN Raise("AttributeError") ELSE r

\* ------------------------------------------------------------- get_one_hot
\* values are labels 0..n-1; n is <<>> (None) or <<n_states>>
RECURSIVE MaxOf(_)
MaxOf(s) == IF Len(s) = 1 THEN s[1] ELSE Max(Head(s), MaxOf(Tail(s)))

\* values.max() raises on an empty array, np.eye(k)[values] on a label >= k
get_one_hot_error(values, n) ==
    IF n = <<>> /\ Len(values) = 0 THEN "ValueError"
    ELSE LET k == IF n = <<>> THEN MaxOf(values) + 1 ELSE n[1]
         IN  IF \E t \in 1..Len(values) : values[t] >= k THEN "IndexError" ELSE "none"

get_one_hot_InferColumns(values, n) ==
    LET k == MaxOf(values) + 1
    IN  [t \in 1..Len(values) |-> [c \in 1..k |-> IF c = values[t] + 1 THEN 1 ELSE 0]]

get_one_hot(values, n) ==
    LET k == IF n = <<>> THEN MaxOf(values) + 1 ELSE n[1]
    IN  [t \in 1..Len(values) |-> [c \in 1..k |-> IF c = values[t] + 1 THEN 1 ELSE 0]]

\* ------------------------------------------------------------------ inputs
Names == {"sequence", "uniform", "random"}
StrArg(s) == [kind |-> "str", name |-> s, shape |-> <<>>, data |-> <<>>]
NoneArg == [kind |-> "None", name |-> "", shape |-> <<>>, data |-> <<>>]
OtherArg == [kind |-> "other", name |-> "", shape |-> <<>>, data |-> <<>>]
ArrayArg(k, sh, d) == [kind |-> k, name |-> "", shape |-> sh, data |-> d]

\* the grid of probabilities handed in: -1/Denom, 0, 1/Denom, ..., 1, 1 + 1/Denom
Probs == {<<k * (Unit \div Denom), 0>> : k \in -1..(Denom + 1)}
\* the first row of an explicit array is raised by e perturbation units
Perturbed(m, e) == [i \in DOMAIN m |-> [j \in DOMAIN m[i] |->
                       IF i = 1 THEN Add(m[i][j], <<0, e>>) ELSE m[i][j]]]
\* explicit 2-D arrays have one or two rows and one or two columns
ArrayShapes == {<<1, 1>>, <<1, 2>>, <<2, 1>>, <<2, 2>>}
ArrayArgs == UNION {{ArrayArg("array", sh, Perturbed(m, e)) :
                        m \in [1..sh[1] -> [1..sh[2] -> Probs]], e \in 0..MaxPerturb}
                     : sh \in ArrayShapes}
             \cup {ArrayArg("array", <<2>>, <<>>), ArrayArg("array", <<2, 2, 2>>, <<>>)}
\* the same 2-D matrices handed in as nested lists
ListArgs == {ArrayArg("list", a.shape, a.data) : a \in {b \in ArrayArgs : Len(b.shape) = 2}}
StayProbs == {<<>>} \cup {<<p>> : p \in Probs}
NStatesArgs == {<<>>} \cup {<<n>> : n \in 1..MaxStates}

\* ------------------------------------------------------------------- state
VARIABLES
    phase,        \* "Uninitialized", "Built", "Failed", or "Sampled" once a sequence was returned
    args,         \* the arguments HMM.__init__ was called with
    trans_prob,   \* self.trans_prob, <<>> while unset
    n_states,     \* self.n_states, <<>> while unset
    rng,          \* whether self._rng exists
    warned,       \* whether the transpose warning was logged
    error,        \* the exception HMM.__init__ raised, or "none"
    n_samples,    \* the argument of the last generate_states call, <<>> before
    states,       \* the labels of the last generate_states call
    stc,          \* what the last generate_states call returned
    gen_error,    \* the exception the last generate_states call raised, or "none"
    ops,          \* the last call of an array_ops function: arguments and outcome
    chains,       \* the HMM objects of a run with seeded generators, in order of creation
    tape,         \* the values read so far from each generator stream: <<key, position, value>>
    sim,          \* the MS_HMM_MVN object of the run
    hsim,         \* the HierarchicalHMM_MVN object of a run with seeded generators
    hier,         \* the HierarchicalHMM_MVN object: arguments, chains, last generate_states call
    lookup        \* the last attribute lookup on a simulation object and its __getattr__ frames

hmm_vars == <<phase, args, trans_prob, n_states, rng, warned, error,
              n_samples, states, stc, gen_error>>
seeded_vars == <<chains, tape, sim, hsim>>
vars == <<hmm_vars, ops, seeded_vars, hier, lookup>>

NoArgs == [trans_prob |-> NoneArg, stay_prob |-> <<>>, n_states |-> <<>>]
NoCall == [called |-> FALSE, fn |-> "", values |-> <<>>, n_states |-> <<>>,
           alignment |-> "", error |-> "none", res |-> <<>>]
NoChain == [kind |-> "none", n_states |-> 0, trans_prob |-> <<>>]
NoHierArgs == [n_samples |-> 0, n_states |-> <<>>, top_level_hmm_type |-> "",
               top_level_trans_prob |-> NoneArg, top_level_stay_prob |-> <<>>,
               bottom_level_trans_probs |-> <<>>, bottom_level_stay_probs |-> <<>>]
NoSample == [error |-> "none", n_samples |-> <<>>, top_level_stc |-> <<>>, visits |-> <<>>,
             time_points_active |-> <<>>, bottom_stcs |-> <<>>, stc |-> <<>>]
NoHier == [phase |-> "Uninitialized", args |-> NoHierArgs, error |-> "none",
           n_states |-> 0, top_level_hmm |-> NoChain, bottom_level_hmms |-> <<>>,
           last |-> NoSample, drawn |-> 0]
NoHierSim == [built |-> FALSE, error |-> "none", top_level_hmm |-> 0,
              bottom_level_hmms |-> <<>>, n_states |-> 0, n_calls |-> 0, n_samples |-> 0,
              asked |-> <<>>, top_level_stc |-> <<>>, stc |-> <<>>]
NoLookup == [called |-> FALSE, cls |-> "", attr |-> "", frames |-> <<>>, outcome |-> "none",
             via |-> "", exc |-> "none", message |-> <<>>]
NoSim == [built |-> FALSE, error |-> "none", args |-> NoArgs, random_seed |-> <<>>, n_samples |-> 0,
          n_states |-> <<>>, alpha_hmm |-> 0, gamma_hmm |-> 0, state_time_course |-> <<>>]

Init ==
    /\ phase = "Uninitialized"
    /\ args = NoArgs
    /\ trans_prob = <<>>
    /\ n_states = <<>>
    /\ rng = FALSE
    /\ warned = FALSE
    /\ error = "none"
    /\ n_samples = <<>>
    /\ states = <<>>
    /\ stc = <<>>
    /\ gen_error = "none"
    /\ ops = NoCall
    /\ chains = <<>>
    /\ tape = {}
    /\ sim = NoSim
    /\ hsim = NoHierSim
    /\ hier = NoHier
    /\ lookup = NoLookup

\* HMM.__init__(trans_prob, stay_prob, n_states)
HMM_init(tp, sp, n) ==
    /\ phase = "Uninitialized"
    /\ LET r == InitResult(tp, sp, n)
       IN  /\ args' = [trans_prob |-> tp, stay_prob |-> sp, n_states |-> n]
           /\ error' = r.error
           /\ warned' = r.warned
           /\ trans_prob' = r.trans_prob
           /\ n_states' = IF r.error = "none" THEN <<NRows(r.trans_prob)>> ELSE <<>>
           /\ rng' = (r.error = "none")
           /\ phase' = IF r.error = "none" THEN "Built" ELSE "Failed"
    /\ UNCHANGED <<n_samples, states, stc, gen_error>>
    /\ UNCHANGED <<ops, seeded_vars, hier, lookup>>

\* Generator.choice(n, size, p) rejects a p with a negative entry
ChoiceRejects(p) == \E j \in DOMAIN p : IsNegative(p[j])

\* the label sequences generate_states can produce: label 0 first, then each
\* label drawn from the row of the one before it
Trajectories(tp, n, N) ==
    {s \in [1..N -> 0..(n - 1)] :
        /\ N >= 1 => s[1] = 0
        /\ \A t \in 2..N : IsPositive(tp[s[t - 1] + 1][s[t] + 1])}

\* HMM.generate_states(n_samples)
generate_states(N) ==
    /\ phase \in {"Built", "Sampled"}
    /\ n_samples' = <<N>>
    /\ IF \E i \in 1..n_states[1] : ChoiceRejects(trans_prob[i])
       THEN /\ gen_error' = "ValueError"
            /\ states' = <<>>
            /\ stc' = <<>>
            /\ phase' = phase
       ELSE /\ gen_error' = "none"
            /\ \E s \in Trajectories(trans_prob, n_states[1], N) :
                  /\ states' = s
                  /\ stc' = get_one_hot(s, n_states)
            /\ phase' = "Sampled"
    /\ UNCHANGED <<args, trans_prob, n_states, rng, warned, error>>
    /\ UNCHANGED <<ops, seeded_vars, hier, lookup>>

\* the calls a caller can make: one construction, then any number of samplings
Construct ==
    /\ phase = "Uninitialized"
    /\ \/ \E tp \in ArrayArgs \cup ListArgs, n \in {<<>>, <<1>>} :
             HMM_init(tp, <<>>, n)
       \/ \E tp \in {StrArg(s) : s \in Names} \cup {NoneArg, OtherArg},
             sp \in StayProbs, n \in NStatesArgs :
             HMM_init(tp, sp, n)

Sample ==
    /\ phase \in {"Built", "Sampled"}
    /\ \E N \in 0..MaxSamples : generate_states(N)

Next == Construct \/ Sample

Spec == Init /\ [][Next]_vars

\* ------------------------------------------------- array_ops called directly
MaxLabel == 2
MaxLen == 3
LabelArrays == {<<>>} \cup UNION {[1..L -> 0..MaxLabel] : L \in 1..MaxLen}

\* get_one_hot(values, n_states) on a 1-D array of labels
OneHot ==
    \E values \in LabelArrays, n \in NStatesArgs :
        LET e == get_one_hot_error(values, n)
        IN  /\ ops' = [called |-> TRUE, fn |-> "get_one_hot", values |-> values,
                       n_states |-> n, alignment |-> "", error |-> e,
                       res |-> IF e = "none" THEN get_one_hot(values, n) ELSE <<>>]
            /\ UNCHANGED <<hmm_vars, seeded_vars, hier, lookup>>

\* a Python slice sequence[start:stop] with integer bounds: a negative bound
\* counts from the end, a bound beyond an end is cut to it
Min(a, b) == IF a <= b THEN a ELSE b
PyIndex(i, len) == IF i < 0 THEN Max(i + len, 0) ELSE Min(i, len)
Slice(sequence, start, stop) ==
    SubSeq(sequence, PyIndex(start, Len(sequence)) + 1, PyIndex(stop, Len(sequence)))

RECURSIVE MinOf(_)
MinOf(s) == IF Len(s) = 1 THEN s[1] ELSE Min(Head(s), MinOf(Tail(s)))

\* align_arrays(*sequences, alignment): min() of no sequences raises ValueError
align_arrays_error(sequences, alignment) ==
    IF sequences = <<>> THEN "ValueError"
    ELSE IF alignment \in {"left", "right", "center"} THEN "none"
    ELSE "ValueError"

align_arrays(sequences, alignment) ==
    LET min_length == MinOf([k \in 1..Len(sequences) |-> Len(sequences[k])])
        half_length == min_length \div 2
        mid(sequence) == Len(sequence) \div 2
        trimmed(sequence) ==
            IF alignment = "left" THEN Slice(sequence, 0, min_length)
            ELSE IF alignment = "right"
            THEN Slice(sequence, -min_length, Len(sequence))
            ELSE Slice(sequence, mid(sequence) - half_length,
                       mid(sequence) + half_length)
        result[n \in 0..Len(sequences)] ==
            IF n = 0 THEN <<>> ELSE Append(result[n - 1], trimmed(sequences[n]))
    IN  result[Len(sequences)]

\* the arrays passed: up to three, of 0..MaxLen elements, np.arange(1, L + 1)
Alignments == {"left", "right", "center", "middle"}
RECURSIVE Arange(_)
Arange(L) == IF L = 0 THEN <<>> ELSE Append(Arange(L - 1), L)
Aranges == {Arange(L) : L \in 0..MaxLen}
ArrayLists == {<<>>} \cup {<<a>> : a \in Aranges} \cup {<<a, b>> : a, b \in Aranges}
              \cup {<<a, b, c>> : a, b, c \in Aranges}

Align ==
    \E sequences \in ArrayLists, alignment \in Alignments :
        LET e == align_arrays_error(sequences, alignment)
        IN  /\ ops' = [called |-> TRUE, fn |-> "align_arrays", values |-> sequences,
                       n_states |-> <<>>, alignment |-> alignment, error |-> e,
                       res |-> IF e = "none" THEN align_arrays(sequences, alignment) ELSE <<>>]
            /\ UNCHANGED <<hmm_vars, seeded_vars, hier, lookup>>

NextArrayOps == OneHot
SpecArrayOps == Init /\ [][NextArrayOps]_vars

NextAlign == Align
SpecAlign == Init /\ [][NextAlign]_vars

\* ------------------------------------------------- runs with seeded generators
MaxSeed == 1
SeedArgs == {<<>>} \cup {<<k>> : k \in 0..MaxSeed}
\* a standalone chain can also take the seeds MS_HMM_MVN derives: seed + 1, seed + 2
ChainSeedArgs == {<<>>} \cup {<<k>> : k \in 0..(MaxSeed + 2)}
Half == <<Unit \div 2, 0>>
Config(tp, sp, n) == [trans_prob |-> tp, stay_prob |-> sp, n_states |-> n]
SeededConfigs == {Config(StrArg(name), sp, <<n>>) :
                     name \in {"sequence", "uniform"}, sp \in {<<>>, <<Half>>},
                     n \in {2, MaxStates}}

\* the values Generator.random() returns, as numerators over Unit: the least
\* value, 0, and the largest one below 1
Uniforms == {0, Unit - 1}

\* Generator.choice(n, p=p) for one uniform u:
\* cdf = p.cumsum(); cdf /= cdf[-1]; cdf.searchsorted(u, side="right").
\* The rows used here sum to exactly 1, so the division leaves cdf as it is.
Cdf(p) == [j \in 1..Len(p) |-> SumSeq(SubSeq(p, 1, j))]
\* Generator.choice(n) without p: the label is floor(u * n)
Choice_IgnoreP(p, u) == (u * Len(p)) \div Unit
Choice(p, u) == Cardinality({j \in 1..Len(p) : LessEq(Cdf(p)[j], <<u, 0>>)})

\* np.random.default_rng(random_seed): the stream of a seed is fixed; without
\* a seed the generator takes fresh entropy, a stream of its own (key -id)
StreamKey_PerObject(seed, id) == -id
StreamKey(seed, id) == IF seed = <<>> THEN -id ELSE seed[1]

\* the value at a position of a stream: the one read there before, else any
StreamValues(tp, key, pos) ==
    LET seen == {e \in tp : e[1] = key /\ e[2] = pos}
    IN  IF seen = {} THEN Uniforms ELSE {e[3] : e \in seen}

\* HMM.__init__ with a random_seed, as the id-th object of the run
HMM_object(cfg, seed, id, owner) ==
    LET r == InitResult(cfg.trans_prob, cfg.stay_prob, cfg.n_states)
    IN  [args |-> cfg, random_seed |-> seed, owner |-> owner, error |-> r.error,
         trans_prob |-> r.trans_prob,
         n_states |-> IF r.error = "none" THEN NRows(r.trans_prob) ELSE 0,
         key |-> StreamKey(seed, id), pos |-> 0, outs |-> <<>>, calls |-> <<>>,
         gen_error |-> "none"]

\* the position of the generator self._rng of the object c: the number of values
\* it has produced so far
GeneratorPosition_Reset(c) == 0
GeneratorPosition_Shared(c) ==
    LET same == {d \in 1..Len(chains) : chains[d].key = c.key}
    IN  IF same = {} THEN c.pos
        ELSE CHOOSE p \in {chains[d].pos : d \in same} :
                 \A d \in same : chains[d].pos <= p
GeneratorPosition(c) == c.pos

\* the loop of HMM.generate_states: rands[i] holds positions base + i*N ..
\* base + i*N + N - 1 of the stream; the label after label i is the next
\* unread value of rands[i].  s holds the labels set so far, reads the
\* positions of the values used for them.
RECURSIVE Walk_OneStream(_, _, _, _, _, _, _)
Walk_OneStream(P, N, key, base, s, tp, reads) ==
    IF Len(s) >= N THEN {[states |-> s, tape |-> tp, reads |-> reads]}
    ELSE LET i == s[Len(s)]
             pos == base + Len(s) - 1
         IN  UNION {Walk_OneStream(P, N, key, base, Append(s, Choice(P[i + 1], u)),
                                   tp \cup {<<key, pos, u>>}, Append(reads, pos))
                    : u \in StreamValues(tp, key, pos)}

RECURSIVE Walk(_, _, _, _, _, _, _)
Walk(P, N, key, base, s, tp, reads) ==
    IF Len(s) >= N THEN {[states |-> s, tape |-> tp, reads |-> reads]}
    ELSE LET i == s[Len(s)]
             taken == Cardinality({t \in 1..(Len(s) - 1) : s[t] = i})
             pos == base + i * N + taken
         IN  UNION {Walk(P, N, key, base, Append(s, Choice(P[i + 1], u)),
                         tp \cup {<<key, pos, u>>}, Append(reads, pos))
                    : u \in StreamValues(tp, key, pos)}

\* HMM.generate_states(n_samples) of the object c: the objects and tapes it can
\* leave.  calls keeps, for every call, n_samples, the generator's position
\* before and after it and the positions of the values the loop used.
HMM_generate_states_InPlace(c, N, tp) ==
    {[chain |-> [c EXCEPT !.pos = GeneratorPosition(c) + c.n_states * N,
                          !.trans_prob = [i \in 1..c.n_states |-> Cdf(c.trans_prob[i])],
                          !.outs = Append(@, get_one_hot(w.states, <<c.n_states>>)),
                          !.calls = Append(@, [n_samples |-> N,
                                               base |-> GeneratorPosition(c),
                                               after |-> GeneratorPosition(c) + c.n_states * N,
                                               reads |-> w.reads])],
      tape |-> w.tape]
     : w \in Walk(c.trans_prob, N, c.key, GeneratorPosition(c),
                  IF N = 0 THEN <<>> ELSE <<0>>, tp, <<>>)}

HMM_generate_states(c, N, tp) ==
    IF \E i \in 1..c.n_states : ChoiceRejects(c.trans_prob[i])
    THEN {[chain |-> [c EXCEPT !.gen_error = "ValueError"], tape |-> tp]}
    ELSE {[chain |-> [c EXCEPT !.pos = GeneratorPosition(c) + c.n_states * N,
                               !.outs = Append(@, get_one_hot(w.states, <<c.n_states>>)),
                               !.calls = Append(@, [n_samples |-> N,
                                                    base |-> GeneratorPosition(c),
                                                    after |-> GeneratorPosition(c) + c.n_states * N,
                                                    reads |-> w.reads])],
           tape |-> w.tape]
          : w \in Walk(c.trans_prob, N, c.key, GeneratorPosition(c),
                       IF N = 0 THEN <<>> ELSE <<0>>, tp, <<>>)}

\* random_seed if random_seed is None else random_seed + k
DerivedSeed_NoOffset(seed, k) == seed
DerivedSeed(seed, k) == IF seed = <<>> THEN <<>> ELSE <<seed[1] + k>>

UserChains == {c \in 1..Len(chains) : chains[c].owner = "user"}

\* a caller constructs a standalone chain: HMM(trans_prob, stay_prob, n_states, random_seed)
NewHMM ==
    /\ Cardinality(UserChains) < (IF sim.built THEN 1 ELSE 2)
    /\ \E cfg \in SeededConfigs, seed \in ChainSeedArgs :
          LET c == HMM_object(cfg, seed, Len(chains) + 1, "user")
          IN  /\ c.error = "none"
              /\ \A d \in 1..Len(chains) : chains[d].args = cfg
              /\ chains' = Append(chains, c)
              /\ UNCHANGED <<hmm_vars, ops, tape, sim, hsim, hier, lookup>>

\* a caller samples a standalone chain for the first time
SampleHMM ==
    \E c \in UserChains, N \in 0..MaxSamples :
        /\ chains[c].outs = <<>>
        /\ chains[c].gen_error = "none"
        /\ \E g \in HMM_generate_states(chains[c], N, tape) :
              /\ chains' = [chains EXCEPT ![c] = g.chain]
              /\ tape' = g.tape
        /\ UNCHANGED <<hmm_vars, ops, sim, hsim, hier, lookup>>

\* MS_HMM_MVN.__init__(n_samples, trans_prob, ..., n_states, stay_prob, random_seed)
MS_HMM_MVN_new(cfg, seed, N) ==
    LET id == Len(chains) + 1
        alpha_hmm == HMM_object(cfg, DerivedSeed(seed, 1), id, "alpha_hmm")
        gamma_hmm == HMM_object(cfg, DerivedSeed(seed, 2), id + 1, "gamma_hmm")
    IN  /\ alpha_hmm.error = "none"
        /\ \E a \in HMM_generate_states(alpha_hmm, N, tape) :
            \E g \in HMM_generate_states(gamma_hmm, N, a.tape) :
               /\ chains' = chains \o <<a.chain, g.chain>>
               /\ tape' = g.tape
               /\ sim' = [built |-> TRUE, error |-> "none", args |-> cfg, random_seed |-> seed,
                          n_samples |-> N, n_states |-> cfg.n_states,
                          alpha_hmm |-> id, gamma_hmm |-> id + 1,
                          state_time_course |-> <<a.chain.outs[1], g.chain.outs[1]>>]
        /\ UNCHANGED <<hmm_vars, ops, hsim, hier, lookup>>

MS_HMM_MVN_init ==
    /\ ~sim.built
    /\ Cardinality(UserChains) <= 1
    /\ \E cfg \in SeededConfigs, seed \in SeedArgs, N \in 0..MaxSamples :
          /\ \A d \in 1..Len(chains) : chains[d].args = cfg
          /\ MS_HMM_MVN_new(cfg, seed, N)

NextSeeded == NewHMM \/ SampleHMM \/ MS_HMM_MVN_init

SpecSeeded == Init /\ [][NextSeeded]_vars

\* ---------------------------------------------------- hierarchical composer
MaxBottom == 2      \* a hierarchical simulation has 1..MaxBottom bottom-level chains
MaxDuration == 2    \* a rounded Gamma duration is in 1..MaxDuration

\* top_level_hmm_type.lower() on the names passed
TypeNames == {"hmm", "HMM", "hsmm", "Hsmm", "markov"}
Lower_Identity(name) == name
Lower(name) == CASE name = "HMM" -> "hmm" [] name = "Hsmm" -> "hsmm" [] OTHER -> name

\* The semi-Markov sampler (osl_dynamics.simulation._hsmm.HSMM), after section
\* 4.3 of the specification: a visit draws a duration in 1.., the label after a
\* visit is any of the other n - 1 labels, visits repeat until their total
\* duration reaches N, the final visit is cut to fit.  v holds the visits made
\* so far, cum their total duration; the first label is not prescribed.
HSMM_NextLabels(n, cur) == (0..(n - 1)) \ {cur}

RECURSIVE HSMM_visits(_, _, _, _)
HSMM_visits(n, N, v, cum) ==
    IF cum >= N THEN {v}
    ELSE UNION {HSMM_visits(n, N, Append(v, [label |-> l, d |-> d]), cum + d) :
                   d \in 1..MaxDuration,
                   l \in (IF v = <<>> THEN 0..(n - 1) ELSE HSMM_NextLabels(n, v[Len(v)].label))}

RECURSIVE TotalDuration(_)
TotalDuration(v) == IF v = <<>> THEN 0 ELSE v[1].d + TotalDuration(Tail(v))

Truncate_Keep(v, N) == v
Truncate(v, N) ==
    IF v = <<>> THEN v
    ELSE [v EXCEPT ![Len(v)].d = N - TotalDuration(SubSeq(v, 1, Len(v) - 1))]

\* the label of each visit, repeated for its duration
RECURSIVE Expand(_)
Expand(v) == IF v = <<>> THEN <<>> ELSE [t \in 1..v[1].d |-> v[1].label] \o Expand(Tail(v))

HSMM_generate_states(n, N) ==
    {[visits |-> Truncate(v, N), stc |-> get_one_hot(Expand(Truncate(v, N)), <<n>>)] :
        v \in HSMM_visits(n, N, <<>>, 0)}

\* what generate_states(N) of a chain of the hierarchy can return
Chain_generate_states(c, N) ==
    IF c.kind = "hsmm" THEN HSMM_generate_states(c.n_states, N)
    ELSE {[visits |-> <<>>, stc |-> get_one_hot(s, <<c.n_states>>)] :
             s \in Trajectories(c.trans_prob, c.n_states, N)}

\* the sequences of one element from each set of a sequence of sets
RECURSIVE Product(_)
Product(sets) ==
    IF sets = <<>> THEN {<<>>}
    ELSE {<<x>> \o r : x \in sets[1], r \in Product(Tail(sets))}

\* np.argwhere(self.top_level_stc[:, i] == 1)[:, 0], for column i (from 1)
time_points_active(top_level_stc, i) ==
    {t \in 1..Len(top_level_stc) : top_level_stc[t][i] = 1}

\* np.empty leaves its rows unset: a row never assigned holds any values
GarbageRows(n) == [1..n -> 0..1]

\* the places counted from the end of S
Rank_Reversed(S, t) == Cardinality({x \in S : x >= t})
\* how many elements of S are at most t: the place of t in the sorted S
Rank(S, t) == Cardinality({x \in S : x <= t})

\* stc after the loop: the rows at time_points_active of chain i are the first
\* rows of B[i], taken in order; g holds the rows no chain wrote
Composite_SameIndex(N, K, T, B, g) ==
    [t \in 1..N |->
        IF \E i \in 1..K : t \in time_points_active(T, i)
        THEN LET i == CHOOSE k \in 1..K : t \in time_points_active(T, k)
             IN  B[i][t]
        ELSE g[t]]
Composite(N, K, T, B, g) ==
    [t \in 1..N |->
        IF \E i \in 1..K : t \in time_points_active(T, i)
        THEN LET i == CHOOSE k \in 1..K : t \in time_points_active(T, k)
             IN  B[i][Rank(time_points_active(T, i), t)]
        ELSE g[t]]

\* HierarchicalHMM_MVN.generate_states(n_samples): what the call can leave.
\* top_level_stc[:, i] raises IndexError for a column the top level lacks.
Hier_generate_states(h, N) ==
    LET K == Len(h.bottom_level_hmms)
        top == h.top_level_hmm
    IN  UNION {
          IF K > top.n_states
          THEN {[error |-> "IndexError", n_samples |-> <<N>>, top_level_stc |-> T.stc,
                 visits |-> T.visits, time_points_active |-> <<>>,
                 bottom_stcs |-> <<>>, stc |-> <<>>]}
          ELSE LET active == [i \in 1..K |-> time_points_active(T.stc, i)]
                   unwritten == {t \in 1..N : \A i \in 1..K : t \notin active[i]}
               IN  {[error |-> "none", n_samples |-> <<N>>, top_level_stc |-> T.stc,
                     visits |-> T.visits, time_points_active |-> active,
                     bottom_stcs |-> B, stc |-> Composite(N, K, T.stc, B, g)] :
                       B \in Product([i \in 1..K |->
                               {o.stc : o \in Chain_generate_states(h.bottom_level_hmms[i], N)}]),
                       g \in [unwritten -> GarbageRows(h.n_states)]}
          : T \in Chain_generate_states(top, N)}

\* the branch on top_level_hmm_type: the chain made, or the exception raised
TopLevel(a) ==
    LET K == Len(a.bottom_level_trans_probs)
        type == Lower(a.top_level_hmm_type)
        r == InitResult(a.top_level_trans_prob, a.top_level_stay_prob, <<K>>)
    IN  IF type = "hmm"
        THEN IF r.error # "none" THEN [error |-> r.error, chain |-> NoChain]
             ELSE [error |-> "none",
                   chain |-> [kind |-> "hmm", n_states |-> NRows(r.trans_prob),
                              trans_prob |-> r.trans_prob]]
        ELSE IF type = "hsmm"
        THEN [error |-> "none", chain |-> [kind |-> "hsmm", n_states |-> K, trans_prob |-> <<>>]]
        ELSE [error |-> "ValueError", chain |-> NoChain]

\* the list of bottom-level chains, or the exception of the first that fails
BottomLevel(a) ==
    LET K == Len(a.bottom_level_trans_probs)
        stay_probs == IF a.bottom_level_stay_probs = <<>> THEN [i \in 1..K |-> <<>>]
                      ELSE a.bottom_level_stay_probs
        r == [i \in 1..K |-> InitResult(a.bottom_level_trans_probs[i], stay_probs[i], a.n_states)]
        bad == {i \in 1..K : r[i].error # "none"}
    IN  IF bad # {}
        THEN [error |-> r[CHOOSE i \in bad : \A j \in bad : i <= j].error, chains |-> <<>>]
        ELSE [error |-> "none",
              chains |-> [i \in 1..K |-> [kind |-> "hmm", n_states |-> NRows(r[i].trans_prob),
                                          trans_prob |-> r[i].trans_prob]]]

\* HierarchicalHMM_MVN.__init__: the observation model, the top-level chain,
\* the bottom-level chains, then self.generate_states(self.n_samples)
HierarchicalHMM_MVN_init(a) ==
    LET top == TopLevel(a)
        bottom == BottomLevel(a)
        failed(e) == [NoHier EXCEPT !.phase = "Failed", !.args = a, !.error = e,
                                    !.n_states = a.n_states[1]]
    IN  IF top.error # "none" THEN hier' = failed(top.error)
        ELSE IF bottom.error # "none"
        THEN hier' = [failed(bottom.error) EXCEPT !.top_level_hmm = top.chain]
        ELSE LET h == [failed("none") EXCEPT !.top_level_hmm = top.chain,
                                             !.bottom_level_hmms = bottom.chains]
             IN  \E g \in Hier_generate_states(h, a.n_samples) :
                    hier' = [h EXCEPT !.last = g, !.error = g.error, !.drawn = a.n_samples,
                                      !.phase = IF g.error = "none" THEN "Built" ELSE "Failed"]

\* the arguments tried.  Bottom-level chains are named generators over
\* n_states = 2 states; the top level is a named generator, an explicit matrix
\* with 1..MaxBottom rows, or a semi-Markov chain over at least two labels.
UniformArray(m) == ArrayArg("array", <<m, m>>, [i \in 1..m |-> [j \in 1..m |-> DivInt(One, m)]])
TopChoices == {<<StrArg("uniform"), <<>>>>, <<StrArg("sequence"), <<Half>>>>}
              \cup {<<UniformArray(m), <<>>>> : m \in 1..MaxBottom}
HierArgs ==
    {[n_samples |-> N, n_states |-> <<2>>, top_level_hmm_type |-> type,
      top_level_trans_prob |-> top[1], top_level_stay_prob |-> top[2],
      bottom_level_trans_probs |-> tps, bottom_level_stay_probs |-> sps] :
        N \in 0..MaxSamples, type \in TypeNames, top \in TopChoices,
        tps \in UNION {[1..K -> {StrArg("uniform"), StrArg("sequence")}] : K \in 1..MaxBottom},
        sps \in {<<>>} \cup {[i \in 1..K |-> <<Half>>] : K \in 1..MaxBottom}}

HierConstruct ==
    /\ hier.phase = "Uninitialized"
    /\ \E a \in HierArgs :
          /\ a.bottom_level_stay_probs # <<>> =>
                Len(a.bottom_level_stay_probs) = Len(a.bottom_level_trans_probs)
          /\ Lower(a.top_level_hmm_type) # "hmm" => a.top_level_trans_prob = StrArg("uniform")
          /\ Lower(a.top_level_hmm_type) = "hsmm" => Len(a.bottom_level_trans_probs) >= 2
          /\ HierarchicalHMM_MVN_init(a)
    /\ UNCHANGED <<hmm_vars, ops, seeded_vars, lookup>>

\* a caller calls generate_states of the simulation again; a run asks for at
\* most MaxSamples samples in all
HierSample ==
    /\ hier.phase = "Built"
    /\ \E N \in 0..(MaxSamples - hier.drawn) :
          \E g \in Hier_generate_states(hier, N) :
             hier' = [hier EXCEPT !.last = g, !.drawn = @ + N]
    /\ UNCHANGED <<hmm_vars, ops, seeded_vars, lookup>>

NextHier == HierConstruct \/ HierSample

SpecHier == Init /\ [][NextHier]_vars

\* --------------------------- repeated and interleaved calls on seeded chains
MaxDraws == 3
MaxCalls == 2
StreamSeeds == {<<>>, <<0>>}
StreamConfigs == {Config(StrArg("sequence"), <<Half>>, <<MaxStates>>),
                  Config(StrArg("uniform"), <<>>, <<2>>)}

\* the generate_states calls made on the chains so far, by anyone
RECURSIVE NCalls(_)
NCalls(cs) == IF cs = <<>> THEN 0 ELSE Len(Head(cs).calls) + NCalls(Tail(cs))
\* the calls of the run: a call on the hierarchy, which asks its chains in
\* turn, counts once, and so does the construction of a simulation, which
\* samples its chains
CallerCalls ==
    NCalls(chains) - (IF sim.built THEN 1 ELSE 0)
    - hsim.n_calls * Len(hsim.bottom_level_hmms)

\* what the last generate_states call of a chain returned
LastOut(c) == IF c.outs = <<>> THEN <<>> ELSE c.outs[Len(c.outs)]

\* for i in range(self.n_bottom_level_hmms): the chains asked, in this order
AskedChains_ActiveOnly(K, T) ==
    LET act == {i \in 1..K : time_points_active(T, i) # {}}
    IN  [j \in 1..Cardinality(act) |->
            CHOOSE i \in act : Cardinality({x \in act : x <= i}) = j]
AskedChains(K, T) == [i \in 1..K |-> i]

\* the loop over the bottom-level chains: each chain of todo is asked for N
\* samples; asked lists the calls made, in order
RECURSIVE Bottom_generate_states(_, _, _, _, _)
Bottom_generate_states(cs, ids, todo, N, tp) ==
    IF todo = <<>> THEN {[chains |-> cs, tape |-> tp, asked |-> <<>>]}
    ELSE LET id == ids[Head(todo)]
         IN  UNION {{[r EXCEPT !.asked = <<<<id, N>>>> \o @] :
                        r \in Bottom_generate_states([cs EXCEPT ![id] = g.chain], ids,
                                                     Tail(todo), N, g.tape)}
                    : g \in HMM_generate_states(cs[id], N, tp)}

\* HierarchicalHMM_MVN.generate_states(n_samples) over the seeded chains cs
HierSim_generate_states(h, cs, N, tp) ==
    LET K == Len(h.bottom_level_hmms)
    IN  UNION {LET T == LastOut(g.chain)
               IN  {[chains |-> r.chains, tape |-> r.tape, top_level_stc |-> T,
                     asked |-> <<<<h.top_level_hmm, N>>>> \o r.asked,
                     stc |-> Composite(N, K, T,
                                       [i \in 1..K |-> LastOut(r.chains[h.bottom_level_hmms[i]])],
                                       <<>>)]
                    : r \in Bottom_generate_states([cs EXCEPT ![h.top_level_hmm] = g.chain],
                                                   h.bottom_level_hmms, AskedChains(K, T),
                                                   N, g.tape)}
               : g \in HMM_generate_states(cs[h.top_level_hmm], N, tp)}

\* HierarchicalHMM_MVN.__init__ with a top-level 'uniform' chain over the K
\* bottom-level chains, each a 'sequence' chain over MaxStates states
HierSim_new(K, top_seed, bottom_seeds, N) ==
    LET id == Len(chains) + 1
        top == HMM_object(Config(StrArg("uniform"), <<>>, <<K>>), top_seed, id,
                          "top_level_hmm")
        bottoms == [i \in 1..K |->
                       HMM_object(Config(StrArg("sequence"), <<Half>>, <<MaxStates>>),
                                  bottom_seeds[i], id + i, "bottom_level_hmms")]
        h == [NoHierSim EXCEPT !.built = TRUE, !.top_level_hmm = id,
                               !.bottom_level_hmms = [i \in 1..K |-> id + i],
                               !.n_states = MaxStates]
    IN  /\ \E g \in HierSim_generate_states(h, chains \o <<top>> \o bottoms, N, tape) :
              /\ chains' = g.chains
              /\ tape' = g.tape
              /\ hsim' = [h EXCEPT !.n_calls = 1, !.n_samples = N, !.asked = g.asked,
                                   !.top_level_stc = g.top_level_stc, !.stc = g.stc]
        /\ UNCHANGED <<hmm_vars, ops, sim, hier, lookup>>

\* a caller constructs a standalone chain, in a run without a simulation; the
\* chains of a run have one configuration
HMM_new ==
    /\ ~sim.built /\ ~hsim.built
    /\ Cardinality(UserChains) < 2
    /\ \E cfg \in StreamConfigs, seed \in StreamSeeds :
          /\ \A d \in 1..Len(chains) : chains[d].args = cfg
          /\ chains' = Append(chains, HMM_object(cfg, seed, Len(chains) + 1, "user"))
          /\ UNCHANGED <<hmm_vars, ops, tape, sim, hsim, hier, lookup>>

\* a caller calls generate_states of any chain of the run, standalone or held
\* by a simulation
HMM_call ==
    /\ CallerCalls < MaxCalls
    /\ \E c \in 1..Len(chains), N \in 0..MaxDraws :
          \E g \in HMM_generate_states(chains[c], N, tape) :
             /\ chains' = [chains EXCEPT ![c] = g.chain]
             /\ tape' = g.tape
    /\ UNCHANGED <<hmm_vars, ops, sim, hsim, hier, lookup>>

\* a caller constructs a multi-scale simulation, the first object of its run
MS_new ==
    /\ chains = <<>>
    /\ \E cfg \in StreamConfigs, seed \in StreamSeeds, N \in 0..MaxDraws :
          MS_HMM_MVN_new(cfg, seed, N)

\* a caller constructs a hierarchical simulation, the first object of its
\* run; bottom_level_random_seeds gives every chain the seed 0
HierSim_init ==
    /\ chains = <<>>
    /\ \E K \in 1..MaxBottom, top_seed \in StreamSeeds, N \in 0..MaxDraws :
          HierSim_new(K, top_seed, [i \in 1..K |-> <<0>>], N)

\* a caller calls generate_states of the hierarchical simulation again
HierSim_call ==
    /\ hsim.built
    /\ CallerCalls < MaxCalls
    /\ \E N \in 0..MaxDraws :
          \E g \in HierSim_generate_states(hsim, chains, N, tape) :
             /\ chains' = g.chains
             /\ tape' = g.tape
             /\ hsim' = [hsim EXCEPT !.n_calls = @ + 1, !.n_samples = N, !.asked = g.asked,
                                     !.top_level_stc = g.top_level_stc, !.stc = g.stc]
    /\ UNCHANGED <<hmm_vars, ops, sim, hier, lookup>>

NextStreams == HMM_new \/ HMM_call \/ MS_new \/ HierSim_init \/ HierSim_call

SpecStreams == Init /\ [][NextStreams]_vars

\* ------------------------------------------------- attribute forwarding
\* The simulation classes of _hmm.py, each built by its constructor.
SimClasses == {"HMM_MAR", "HMM_MVN", "MS_HMM_MVN", "HierarchicalHMM_MVN", "HMM_Sine"}

\* frames of __getattr__ the interpreter allows on the stack before RecursionError
RecursionLimit == 3

\* what the base class Simulation gives every object: super().__init__(n_samples=...)
\* sets n_samples, and super().standardize() exists
BaseAttrs == {"n_samples", "standardize"}

\* the properties every simulation class defines
PropertyAttrs == {"n_modes", "mode_time_course"}

\* the attributes each constructor sets on self, and the methods of the class
InitAttrs(cls) ==
    CASE cls = "HMM_MAR" ->
            {"obs_mod", "n_states", "n_channels", "hmm", "state_time_course", "time_series"}
      [] cls = "HMM_MVN" ->
            {"obs_mod", "n_states", "n_channels", "hmm", "state_time_course", "time_series"}
      [] cls = "MS_HMM_MVN" ->
            {"obs_mod", "n_states", "n_channels", "alpha_hmm", "gamma_hmm",
             "state_time_course", "time_series", "instantaneous_covs"}
      [] cls = "HierarchicalHMM_MVN" ->
            {"obs_mod", "n_states", "n_channels", "top_level_hmm", "n_bottom_level_hmms",
             "bottom_level_hmms", "top_level_stc", "state_time_course", "time_series",
             "generate_states"}
      [] cls = "HMM_Sine" ->
            {"obs_mod", "n_states", "n_channels", "hmm", "state_time_course", "time_series"}

\* the names normal lookup finds on the simulation itself, without __getattr__
OwnAttrs(cls) == InitAttrs(cls) \cup PropertyAttrs \cup BaseAttrs

\* dir(self.obs_mod): the attributes the simulation classes read from their
\* observation model (MAR, MVN, MS_MVN, SingleSine)
ObsModAttrs(cls) ==
    CASE cls = "HMM_MAR" -> {"n_modes", "n_channels", "simulate_data"}
      [] cls = "HMM_MVN" -> {"n_modes", "n_channels", "simulate_data", "covariances"}
      [] cls = "MS_HMM_MVN" ->
            {"n_modes", "n_channels", "simulate_data", "instantaneous_covs"}
      [] cls = "HierarchicalHMM_MVN" ->
            {"n_modes", "n_channels", "simulate_data", "covariances"}
      [] cls = "HMM_Sine" -> {"n_states", "n_channels", "simulate_data"}

\* dir(HMM object): what HMM.__init__ sets and the methods of HMM
ChainAttrs == {"trans_prob", "n_states", "_rng", "construct_sequence_trans_prob",
               "construct_uniform_trans_prob", "generate_states"}

\* names no class of the module defines
UndefinedNames == {"foo"}

AttrNames == UNION {OwnAttrs(cls) \cup ObsModAttrs(cls) : cls \in SimClasses}
                 \cup ChainAttrs \cup UndefinedNames

\* whether the __getattr__ of the class has the branch 'elif attr in dir(self.hmm)'
ForwardsToChain(cls) == cls # "MS_HMM_MVN"

\* whether evaluating self.hmm succeeds by normal lookup
HasHmm(cls) == "hmm" \in OwnAttrs(cls)

\* one frame of __getattr__(self, attr): return through obs_mod, return through
\* self.hmm, raise, or, where self.hmm is itself missing, call __getattr__("hmm")
SimGetattr(cls, attr) ==
    IF attr \in ObsModAttrs(cls)
    THEN [do |-> "return", via |-> "obs_mod"]
    ELSE IF ForwardsToChain(cls)
         THEN IF ~HasHmm(cls)
              THEN [do |-> "getattr", via |-> "hmm"]
              ELSE IF attr \in ChainAttrs
                   THEN [do |-> "return", via |-> "hmm"]
                   ELSE [do |-> "raise", via |-> ""]
         ELSE [do |-> "raise", via |-> ""]

\* a caller evaluates sim.<attr> on an object of class cls
GetAttr ==
    /\ lookup.outcome # "pending"
    /\ \E cls \in SimClasses, attr \in AttrNames :
          lookup' = IF attr \in OwnAttrs(cls)
                    THEN [called |-> TRUE, cls |-> cls, attr |-> attr, frames |-> <<>>,
                          outcome |-> "returned", via |-> "self", exc |-> "none",
                          message |-> <<>>]
                    ELSE [called |-> TRUE, cls |-> cls, attr |-> attr, frames |-> <<attr>>,
                          outcome |-> "pending", via |-> "", exc |-> "none",
                          message |-> <<>>]
    /\ UNCHANGED <<hmm_vars, ops, seeded_vars, hier>>

\* the innermost __getattr__ frame runs; an exception unwinds every frame
Getattr_step ==
    /\ lookup.outcome = "pending"
    /\ LET attr == lookup.frames[Len(lookup.frames)]
           r == SimGetattr(lookup.cls, attr)
       IN  lookup' =
             CASE r.do = "return" ->
                    [lookup EXCEPT !.frames = <<>>, !.outcome = "returned", !.via = r.via]
               [] r.do = "raise" ->
                    [lookup EXCEPT !.frames = <<>>, !.outcome = "raised",
                                   !.exc = "AttributeError",
                                   !.message = <<"No attribute called", attr>>]
               [] r.do = "getattr" ->
                    IF Len(lookup.frames) >= RecursionLimit
                    THEN [lookup EXCEPT !.frames = <<>>, !.outcome = "raised",
                                        !.exc = "RecursionError"]
                    ELSE [lookup EXCEPT !.frames = Append(@, r.via)]
    /\ UNCHANGED <<hmm_vars, ops, seeded_vars, hier>>

NextGetattr == GetAttr \/ Getattr_step

SpecGetattr == Init /\ [][NextGetattr]_vars

\* ------------------------------------------------------------------ claims
Called == phase # "Uninitialized"
Constructed == phase \in {"Built", "Sampled"}
ArgIsArray == Called /\ args.trans_prob.kind = "array"
ArgIsSquareArray ==
    /\ ArgIsArray
    /\ Len(args.trans_prob.shape) = 2
    /\ args.trans_prob.shape[1] = args.trans_prob.shape[2]
ArgIsStr(s) == Called /\ args.trans_prob.kind = "str" /\ args.trans_prob.name = s
\* a sum that is 1 within 1e-12
SumsToOne(row) == ~AbsGreaterTol(Sub(SumSeq(row), One))
Column(m, j) == [i \in 1..Len(m) |-> m[i][j]]
RowStochastic(m) == \A i \in 1..Len(m) : SumsToOne(m[i])
ColStochastic(m) == \A j \in 1..Len(m[1]) : SumsToOne(Column(m, j))

\* C1: after any successful construction every row of the stored trans_prob
\* sums to 1 within 1e-12.
C1_RowsSumToOne == Constructed => RowStochastic(trans_prob)

\* a chain built from a transposed array whose rows miss 1 by less than 1e-12
C1_Witness ==
    /\ phase = "Built"
    /\ warned
    /\ \E i \in 1..Len(trans_prob) : SumSeq(trans_prob[i]) # One

\* C2: every transition matrix of a successfully constructed chain has all its
\* entries in [0, 1] (read generously: up to the rounding tolerance 1e-12).
C2_EntriesInUnitInterval ==
    Constructed =>
        \A i \in 1..Len(trans_prob) : \A j \in 1..Len(trans_prob[i]) :
            LET x == trans_prob[i][j]
            IN  /\ ~IsNegative(x) \/ ~AbsGreaterTol(x)
                /\ LessEq(x, One) \/ ~AbsGreaterTol(Sub(x, One))

\* C3: a square array with a row off by more than 1e-12 and every column within
\* 1e-12 is accepted with a warning and stored transposed; with every row
\* within 1e-12 it is stored as given, without a warning.
C3_TransposeOnlyWhenRowsFail ==
    ArgIsSquareArray =>
        LET d == args.trans_prob.data
        IN  /\ (~RowStochastic(d) /\ ColStochastic(d)) =>
                  /\ Constructed
                  /\ warned
                  /\ \A i \in 1..Len(d) : \A j \in 1..Len(d) : trans_prob[i][j] = d[j][i]
            /\ RowStochastic(d) =>
                  /\ Constructed
                  /\ ~warned
                  /\ trans_prob = d

\* a transposed array that is not symmetric
C3_Witness ==
    /\ phase = "Built"
    /\ warned
    /\ trans_prob # args.trans_prob.data

\* C4: an array that is not 2-D, not square, or stochastic in neither
\* orientation fails with ValueError and leaves no trans_prob, n_states or
\* generator.
C4_InvalidArrayFails ==
    (/\ ArgIsArray
     /\ \/ ~ArgIsSquareArray
        \/ (~RowStochastic(args.trans_prob.data) /\ ~ColStochastic(args.trans_prob.data)))
    => /\ phase = "Failed"
       /\ error = "ValueError"
       /\ trans_prob = <<>>
       /\ n_states = <<>>
       /\ ~rng

\* a square array rejected because neither its rows nor its columns sum to 1
C4_Witness ==
    /\ phase = "Failed"
    /\ ArgIsSquareArray
    /\ args.trans_prob.shape = <<2, 2>>
    /\ error = "ValueError"

\* C5: 'sequence' with stay_prob p and n >= 2 states gives trans[i,i] = p,
\* trans[i,(i+1) mod n] = 1-p and 0 elsewhere.
C5_SequenceMatrix ==
    (/\ ArgIsStr("sequence")
     /\ args.stay_prob # <<>>
     /\ args.n_states # <<>>
     /\ args.n_states # <<1>>)
    => /\ Constructed
       /\ LET n == args.n_states[1]
              p == args.stay_prob[1]
          IN  /\ Len(trans_prob) = n
              /\ \A i \in 0..(n - 1) :
                    /\ Len(trans_prob[i + 1]) = n
                    /\ \A j \in 0..(n - 1) :
                          trans_prob[i + 1][j + 1] =
                              IF j = i THEN p
                              ELSE IF j = (i + 1) % n THEN <<Unit - p[1], -p[2]>>
                              ELSE <<0, 0>>

\* a 'sequence' chain of the largest size with a stay_prob strictly inside (0, 1)
C5_Witness ==
    /\ phase = "Built"
    /\ ArgIsStr("sequence")
    /\ args.n_states = <<MaxStates>>
    /\ IsPositive(trans_prob[MaxStates][1])
    /\ IsPositive(trans_prob[1][1])

\* C6: 'uniform' with n >= 2 states has stay_prob on the diagonal and
\* (1 - stay_prob)/(n - 1) off it; an omitted stay_prob is 1/n, so that every
\* entry is 1/n.
C6_UniformMatrix ==
    (/\ ArgIsStr("uniform")
     /\ args.n_states # <<>>
     /\ args.n_states # <<1>>)
    => /\ Constructed
       /\ LET n == args.n_states[1]
          IN  /\ Len(trans_prob) = n
              /\ \A i \in 1..n :
                    /\ Len(trans_prob[i]) = n
                    /\ \A j \in 1..n :
                          LET x == trans_prob[i][j]
                          IN  IF args.stay_prob = <<>>
                              THEN n * x[1] = Unit /\ x[2] = 0
                              ELSE IF i = j
                              THEN x = args.stay_prob[1]
                              ELSE /\ (n - 1) * x[1] = Unit - args.stay_prob[1][1]
                                   /\ (n - 1) * x[2] = -args.stay_prob[1][2]

\* a 'uniform' chain of the largest size built without a stay_prob
C6_Witness ==
    /\ phase = "Built"
    /\ ArgIsStr("uniform")
    /\ args.stay_prob = <<>>
    /\ args.n_states = <<MaxStates>>

\* C7 as stated: with n_states = 1 the chain built from an array (here: one
\* whose entries are probabilities), a string or None always holds the 1x1
\* matrix [[1]] (read generously: 1 up to 1e-12).
C7_SingleStateAlwaysOnes ==
    (/\ Constructed
     /\ args.n_states = <<1>>
     /\ args.trans_prob.kind \in {"array", "str", "None"}
     /\ \A i \in 1..Len(trans_prob) : \A j \in 1..Len(trans_prob[i]) :
            ~IsNegative(trans_prob[i][j]))
    => /\ Len(trans_prob) = 1
       /\ Len(trans_prob[1]) = 1
       /\ ~AbsGreaterTol(Sub(trans_prob[1][1], One))

\* C7 as amended: with n_states = 1, 'sequence', 'uniform' and None give [[1]]
\* whatever stay_prob is; another string fails with ValueError; an array is
\* stored as validated and n_states is read off it.
C7_SingleStateNamedOrNone ==
    (Called /\ args.n_states = <<1>>) =>
        /\ (ArgIsStr("sequence") \/ ArgIsStr("uniform") \/ args.trans_prob.kind = "None")
              => /\ Constructed
                 /\ trans_prob = <<<<One>>>>
                 /\ n_states = <<1>>
        /\ (args.trans_prob.kind = "str" /\ args.trans_prob.name \notin {"sequence", "uniform"})
              => /\ phase = "Failed"
                 /\ error = "ValueError"
        /\ (ArgIsArray /\ Constructed)
              => /\ n_states = <<args.trans_prob.shape[1]>>
                 /\ trans_prob \in {args.trans_prob.data,
                                    [j \in 1..Len(args.trans_prob.data) |->
                                        Column(args.trans_prob.data, j)]}

\* a one-state 'sequence' chain built without a stay_prob
C7_Witness ==
    /\ phase = "Built"
    /\ ArgIsStr("sequence")
    /\ args.stay_prob = <<>>
    /\ args.n_states = <<1>>

\* C8: with n_states other than 1, a string that is neither 'sequence' nor
\* 'uniform', 'sequence' without stay_prob or n_states, and 'uniform' without
\* n_states all fail with ValueError, no matrix built.
C8_BadStringFails ==
    (/\ Called
     /\ args.trans_prob.kind = "str"
     /\ args.n_states # <<1>>
     /\ \/ args.trans_prob.name \notin {"sequence", "uniform"}
        \/ (args.trans_prob.name = "sequence" /\ (args.stay_prob = <<>> \/ args.n_states = <<>>))
        \/ (args.trans_prob.name = "uniform" /\ args.n_states = <<>>))
    => /\ phase = "Failed"
       /\ error = "ValueError"
       /\ trans_prob = <<>>

\* 'sequence' with n_states but no stay_prob, rejected
C8_Witness ==
    /\ phase = "Failed"
    /\ ArgIsStr("sequence")
    /\ args.stay_prob = <<>>
    /\ args.n_states = <<MaxStates>>

\* C9: with no usable transition specification (None, or a value that is no
\* array, list or string) and n_states other than 1, construction fails with
\* ValueError.
C9_NoSpecIsValueError ==
    (/\ Called
     /\ args.trans_prob.kind \in {"None", "other"}
     /\ args.n_states # <<1>>)
    => /\ phase = "Failed"
       /\ error = "ValueError"

\* C10: whenever construction succeeded, generate_states(n_samples) completes
\* and returns n_samples rows.
C10_BuiltChainSamples ==
    (Constructed /\ n_samples # <<>>) =>
        /\ gen_error = "none"
        /\ Len(stc) = n_samples[1]

\* a row holding a single 1, at the column of label lab, and 0 elsewhere
UnitRow(len, lab) == [c \in 1..len |-> IF c = lab + 1 THEN 1 ELSE 0]
IsOneHot(row) == \E c \in 1..Len(row) : row = UnitRow(Len(row), c - 1)
Returned == Constructed /\ n_samples # <<>> /\ gen_error = "none"

\* C11: the array HMM.generate_states(N) returns for N >= 1 has N rows and as
\* many columns as the chain has states, whichever labels were visited; every
\* row holds exactly one 1; row 0 is the unit vector of label 0.
C11_OneHotShape ==
    (Returned /\ n_samples[1] >= 1) =>
        /\ Len(stc) = n_samples[1]
        /\ \A t \in 1..Len(stc) : Len(stc[t]) = n_states[1] /\ IsOneHot(stc[t])
        /\ stc[1] = UnitRow(n_states[1], 0)

\* a chain of MaxStates states returned MaxSamples rows and never left label 0
C11_Witness ==
    /\ Returned
    /\ n_samples[1] = MaxSamples
    /\ n_states[1] = MaxStates
    /\ \A t \in 1..Len(states) : states[t] = 0
    /\ Len(stc) = MaxSamples

\* C20: get_one_hot called without n_states returns as many columns as the
\* input holds distinct labels.
C20_ColumnsAreUniqueCount ==
    (ops.called /\ ops.fn = "get_one_hot" /\ ops.n_states = <<>> /\ ops.error = "none") =>
        NCols(ops.res) = Cardinality({ops.values[t] : t \in 1..Len(ops.values)})

Sampled(c) == chains[c].outs # <<>>
VisitsOtherLabel(out) == \E t \in 1..Len(out) : out[t] # UnitRow(Len(out[t]), 0)

\* C12: two separately constructed chains with the same configuration and the
\* same random_seed (not None) return the same array from their first
\* generate_states(N) call, for the same N.
C12_SameSeedSameSequence ==
    \A c, d \in UserChains :
        (/\ chains[c].args = chains[d].args
         /\ chains[c].random_seed # <<>>
         /\ chains[c].random_seed = chains[d].random_seed
         /\ Sampled(c) /\ Sampled(d)
         /\ Len(chains[c].outs[1]) = Len(chains[d].outs[1]))
        => chains[c].outs[1] = chains[d].outs[1]

\* two chains of one seed both returned MaxSamples rows that leave label 0
C12_Witness ==
    \E c, d \in UserChains :
        /\ c # d
        /\ chains[c].args = chains[d].args
        /\ chains[c].random_seed # <<>>
        /\ chains[c].random_seed = chains[d].random_seed
        /\ Sampled(c) /\ Sampled(d)
        /\ Len(chains[c].outs[1]) = MaxSamples
        /\ Len(chains[d].outs[1]) = MaxSamples
        /\ VisitsOtherLabel(chains[c].outs[1])

\* C18: state_time_course of MS_HMM_MVN has shape [2, n_samples, n_states];
\* with a random_seed, element 0 is what a standalone chain of the same
\* configuration and seed random_seed + 1 returns from its first
\* generate_states(n_samples), element 1 what one of seed random_seed + 2
\* returns, whether or not, and in whatever order, the other was sampled.
C18_MultiScaleSeeds ==
    sim.built =>
        /\ Len(sim.state_time_course) = 2
        /\ \A e \in 1..2 :
              /\ Len(sim.state_time_course[e]) = sim.n_samples
              /\ \A t \in 1..sim.n_samples :
                    Len(sim.state_time_course[e][t]) = sim.n_states[1]
        /\ sim.random_seed # <<>> =>
              \A c \in UserChains, e \in 1..2 :
                  (/\ chains[c].args = sim.args
                   /\ chains[c].random_seed = <<sim.random_seed[1] + e>>
                   /\ Sampled(c)
                   /\ Len(chains[c].outs[1]) = sim.n_samples)
                  => sim.state_time_course[e] = chains[c].outs[1]

\* a seeded simulation of MaxSamples samples whose two time scales differ, and
\* a standalone chain of seed random_seed + 2 that returned element 1
C18_Witness ==
    /\ sim.built
    /\ sim.random_seed # <<>>
    /\ sim.n_samples = MaxSamples
    /\ sim.state_time_course[1] # sim.state_time_course[2]
    /\ \E c \in UserChains :
          /\ chains[c].random_seed = <<sim.random_seed[1] + 2>>
          /\ Sampled(c)
          /\ chains[c].outs[1] = sim.state_time_course[2]
          /\ VisitsOtherLabel(chains[c].outs[1])

HierCalled == hier.phase # "Uninitialized"
HierReturned == hier.phase = "Built" /\ hier.last.error = "none"
NBottom == Len(hier.bottom_level_hmms)
\* the bottom-level chain active at t (from 1), 0 when the label has no chain
ActiveChain(t) ==
    IF \E k \in 1..NBottom : hier.last.top_level_stc[t][k] = 1
    THEN CHOOSE k \in 1..NBottom : hier.last.top_level_stc[t][k] = 1
    ELSE 0
\* the place of t among the indices at which chain k is active (from 1)
PlaceOf(k, t) == Cardinality({u \in 1..t : hier.last.top_level_stc[u][k] = 1})

\* C13: the visits of the semi-Markov sampler (n_states >= 2) have integer
\* durations of at least 1 which, the final visit cut, sum to exactly N; no two
\* consecutive visits carry the same label; the output has N rows.
C13_SojournVisits ==
    (hier.top_level_hmm.kind = "hsmm" /\ hier.last.n_samples # <<>>) =>
        LET v == hier.last.visits
        IN  /\ \A k \in 1..Len(v) : v[k].d \in Nat /\ v[k].d >= 1
            /\ TotalDuration(v) = hier.last.n_samples[1]
            /\ \A k \in 1..(Len(v) - 1) : v[k].label # v[k + 1].label
            /\ Len(hier.last.top_level_stc) = hier.last.n_samples[1]
            /\ \A k \in 1..Len(v) : \A t \in 1..v[k].d :
                  hier.last.top_level_stc[TotalDuration(SubSeq(v, 1, k - 1)) + t]
                      = UnitRow(hier.top_level_hmm.n_states, v[k].label)

\* a semi-Markov top level returned MaxSamples samples in more than one visit
C13_Witness ==
    /\ hier.top_level_hmm.kind = "hsmm"
    /\ hier.last.n_samples = <<MaxSamples>>
    /\ Len(hier.last.visits) >= 2
    /\ hier.top_level_hmm.n_states >= 2

\* C14: generate_states(N) of a hierarchical simulation that was constructed
\* returns N rows of n_states columns, each written by a bottom-level chain
\* and holding exactly one 1.
C14_CompositeIsOneHot ==
    HierReturned =>
        /\ Len(hier.last.stc) = hier.last.n_samples[1]
        /\ \A t \in 1..Len(hier.last.stc) :
              /\ Len(hier.last.stc[t]) = hier.n_states
              /\ IsOneHot(hier.last.stc[t])
              /\ \E k \in 1..NBottom : t \in hier.last.time_points_active[k]

\* C15: the time_points_active sets of the bottom-level chains are pairwise
\* disjoint and together are all of 0..N-1, for every accepted top level.
C15_ActiveSetsPartition ==
    HierReturned =>
        /\ \A k, l \in 1..NBottom :
              k # l => hier.last.time_points_active[k] \cap hier.last.time_points_active[l] = {}
        /\ UNION {hier.last.time_points_active[k] : k \in 1..NBottom}
              = 1..hier.last.n_samples[1]

\* C16: the composite has N rows, and its row at t, where the top level has the
\* label of bottom-level chain k and t is the j-th index at which k is active,
\* is row j of the sequence chain k generated in this call.
C16_RelativePosition ==
    HierReturned =>
        /\ Len(hier.last.stc) = hier.last.n_samples[1]
        /\ \A t \in 1..Len(hier.last.stc) :
              ActiveChain(t) # 0 =>
                  hier.last.stc[t]
                      = hier.last.bottom_stcs[ActiveChain(t)][PlaceOf(ActiveChain(t), t)]

\* a row taken from an earlier place of its chain's sequence, which holds
\* another label at the row's own index
C16_Witness ==
    /\ HierReturned
    /\ hier.last.n_samples = <<MaxSamples>>
    /\ \E t \in 1..Len(hier.last.stc) :
          /\ ActiveChain(t) # 0
          /\ PlaceOf(ActiveChain(t), t) < t
          /\ hier.last.bottom_stcs[ActiveChain(t)][t] # hier.last.stc[t]

\* C17: the composite row at t is the row at the same index t of the sequence
\* the active bottom-level chain generated.
C17_SameIndex ==
    HierReturned =>
        \A t \in 1..Len(hier.last.stc) :
            ActiveChain(t) # 0 => hier.last.stc[t] = hier.last.bottom_stcs[ActiveChain(t)][t]

\* C17, amended: the composite row at t is the row of the active chain's
\* sequence that follows as many rows as there are earlier indices at which
\* that chain was active; it is the row at index t itself when the chain was
\* active at every earlier index.
C17_SameIndexWhileAlwaysActive ==
    HierReturned =>
        \A t \in 1..Len(hier.last.stc) :
            ActiveChain(t) # 0 =>
                LET k == ActiveChain(t)
                    earlier == Cardinality({u \in 1..(t - 1) : ActiveChain(u) = k})
                IN  /\ hier.last.stc[t] = hier.last.bottom_stcs[k][earlier + 1]
                    /\ earlier = t - 1 => hier.last.stc[t] = hier.last.bottom_stcs[k][t]

\* a chain active from index 0 up to an index at which it has left label 0
C17_Witness ==
    /\ HierReturned
    /\ hier.last.n_samples = <<MaxSamples>>
    /\ \E t \in 2..Len(hier.last.stc) :
          /\ ActiveChain(t) # 0
          /\ \A u \in 1..t : ActiveChain(u) = ActiveChain(t)
          /\ hier.last.stc[t] = hier.last.bottom_stcs[ActiveChain(t)][t]
          /\ hier.last.stc[t] # UnitRow(hier.n_states, 0)

NothingCreated ==
    /\ hier.top_level_hmm = NoChain
    /\ hier.bottom_level_hmms = <<>>
    /\ hier.last = NoSample
TopIsDecidedByCount ==
    \/ hier.args.top_level_trans_prob.kind = "str"
    \/ hier.args.top_level_trans_prob.shape = <<Len(hier.args.bottom_level_trans_probs),
                                                 Len(hier.args.bottom_level_trans_probs)>>

AlignCalled == ops.called /\ ops.fn = "align_arrays" /\ ops.values # <<>>
ShortestLength == MinOf([k \in 1..Len(ops.values) |-> Len(ops.values[k])])

\* C21: for 'left', 'right' and 'center' align_arrays returns sequences that
\* all have the length of the shortest input: the first, the last, or a middle
\* window of that many elements; any other alignment raises ValueError.
C21_AlignedToShortest ==
    AlignCalled =>
        IF ops.alignment \in {"left", "right", "center"}
        THEN /\ ops.error = "none"
             /\ \A k \in 1..Len(ops.res) :
                   LET len == Len(ops.values[k])
                   IN  /\ Len(ops.res[k]) = ShortestLength
                       /\ ops.alignment = "left" =>
                             ops.res[k] = SubSeq(ops.values[k], 1, ShortestLength)
                       /\ ops.alignment = "right" =>
                             ops.res[k] = SubSeq(ops.values[k], len - ShortestLength + 1, len)
                       /\ ops.alignment = "center" =>
                             \E first \in 1..(len + 1) :
                                 ops.res[k] = SubSeq(ops.values[k], first, first + ShortestLength - 1)
        ELSE ops.error = "ValueError"

\* what the constructor does with the matrix of a nested list handed in as an array
AsArray == InitResult(ArrayArg("array", args.trans_prob.shape, args.trans_prob.data),
                      args.stay_prob, args.n_states)
ArgIsList == Called /\ args.trans_prob.kind = "list"

\* C30: a matrix passed as a nested list is treated like the same matrix passed
\* as an array: construction succeeds exactly when it succeeds for the array,
\* and the chain then stores the same trans_prob and n_states.
C30_ListLikeArray ==
    ArgIsList =>
        /\ (error = "none") <=> (AsArray.error = "none")
        /\ error = "none" =>
               /\ trans_prob = AsArray.trans_prob
               /\ n_states = <<NRows(AsArray.trans_prob)>>

\* the label a one-hot row stands for, and the labels of an array of rows
LabelOf(row) == CHOOSE lab \in 0..(Len(row) - 1) : row[lab + 1] = 1
Labels(out) == [t \in 1..Len(out) |-> LabelOf(out[t])]
\* the calls made on the chains of the run: <<chain, call>>
ChainCalls == {<<c, j>> \in (1..Len(chains)) \X (1..(MaxCalls + 1)) : j <= Len(chains[c].calls)}

\* C22: in every sequence generate_states returns, each label after the first
\* has positive probability in the row of the label before it; with the
\* 'sequence' matrix it is that label or the next one modulo n_states.
C22_NextFromPreviousRow ==
    \A cj \in ChainCalls :
        LET c == chains[cj[1]]
            s == Labels(c.outs[cj[2]])
        IN  \A t \in 2..Len(s) :
               /\ IsPositive(c.trans_prob[s[t - 1] + 1][s[t] + 1])
               /\ c.args.trans_prob = StrArg("sequence") =>
                      s[t] \in {s[t - 1], (s[t - 1] + 1) % c.n_states}

C22_Witness ==
    \E cj \in ChainCalls :
        LET c == chains[cj[1]]
            s == Labels(c.outs[cj[2]])
        IN  /\ c.args.trans_prob = StrArg("sequence")
            /\ c.n_states = MaxStates
            /\ Len(s) = MaxDraws
            /\ \E t \in 2..Len(s) : s[t] = s[t - 1]
            /\ \E t \in 2..Len(s) : s[t] # s[t - 1]

\* C23: a call draws one stream of N values per source state, in row order
\* (stream i holds the values base + i*N .. base + i*N + N - 1 of the
\* generator); the m-th step out of state i uses the m-th value of stream i;
\* at most N - 1 values are used, so no stream runs out; the generator
\* advances by n_states * N whatever the trajectory.
C23_StreamPerSourceState ==
    \A cj \in ChainCalls :
        LET c == chains[cj[1]]
            call == c.calls[cj[2]]
            s == Labels(c.outs[cj[2]])
            N == call.n_samples
        IN  /\ Len(call.reads) = Max(N - 1, 0)
            /\ \A t \in 1..Len(call.reads) :
                  LET m == Cardinality({u \in 1..t : s[u] = s[t]})
                  IN  /\ m <= N - 1
                      /\ call.reads[t] = call.base + s[t] * N + (m - 1)
            /\ call.after - call.base = c.n_states * N

C23_Witness ==
    \E cj \in ChainCalls :
        LET c == chains[cj[1]]
            call == c.calls[cj[2]]
            s == Labels(c.outs[cj[2]])
        IN  /\ call.n_samples = MaxDraws
            /\ s[2] # 0
            /\ call.reads[2] = call.base + s[2] * MaxDraws

\* the samples a chain was asked for in the calls before its j-th
RECURSIVE AskedBefore(_, _)
AskedBefore(c, j) == IF j <= 1 THEN 0 ELSE c.calls[j - 1].n_samples + AskedBefore(c, j - 1)

\* C25: a later generate_states call on the same chain starts again from label
\* 0 and uses values of the generator that follow all those drawn by the
\* calls before it: none below n_states times the samples asked for so far.
C25_LaterCallContinuesTheStream ==
    \A cj \in ChainCalls :
        LET c == chains[cj[1]]
            call == c.calls[cj[2]]
            out == c.outs[cj[2]]
        IN  /\ call.n_samples >= 1 => out[1] = UnitRow(c.n_states, 0)
            /\ call.base = c.n_states * AskedBefore(c, cj[2])
            /\ \A t \in 1..Len(call.reads) : call.reads[t] >= call.base

\* a second call for as many samples as the first returns another sequence
C25_Witness ==
    \E c \in 1..Len(chains) :
        /\ Len(chains[c].calls) = 2
        /\ chains[c].calls[1].n_samples = MaxDraws
        /\ chains[c].calls[2].n_samples = MaxDraws
        /\ chains[c].outs[1] # chains[c].outs[2]
        /\ chains[c].outs[2][1] = UnitRow(chains[c].n_states, 0)

\* what the j-th call of chain c returns when it reads the stream of c's own
\* generator from the place c's own earlier calls left it
Replay(c, j) ==
    {get_one_hot(w.states, <<c.n_states>>) :
        w \in Walk(c.trans_prob, c.calls[j].n_samples, c.key,
                   c.n_states * AskedBefore(c, j),
                   IF c.calls[j].n_samples = 0 THEN <<>> ELSE <<0>>, tape, <<>>)}

\* C26: whatever calls were made on other chains in between, every call of a
\* chain returned what the chain returns when it is the only one sampled: the
\* walk over its own stream, from the position its own calls reached.
C26_PrivateGenerator ==
    \A cj \in ChainCalls : Replay(chains[cj[1]], cj[2]) = {chains[cj[1]].outs[cj[2]]}

\* the chains of a hierarchy with one seed, each asked twice, in turn
C26_Witness ==
    /\ hsim.built
    /\ hsim.n_calls = 2
    /\ hsim.n_samples = MaxDraws
    /\ Len(hsim.bottom_level_hmms) = MaxBottom
    /\ \A i \in 1..MaxBottom :
          /\ chains[hsim.bottom_level_hmms[i]].key = chains[hsim.top_level_hmm].key
          /\ Len(chains[hsim.bottom_level_hmms[i]].calls) = 2
    /\ chains[hsim.top_level_hmm].outs[1] # chains[hsim.top_level_hmm].outs[2]

\* C27: after any calls every chain has the trans_prob and n_states its
\* constructor set, and the hierarchy holds the bottom-level chains it
\* created, in the order it created them.
C27_CallsLeaveChainsAsBuilt ==
    /\ \A c \in 1..Len(chains) :
          LET r == InitResult(chains[c].args.trans_prob, chains[c].args.stay_prob,
                              chains[c].args.n_states)
          IN  /\ chains[c].trans_prob = r.trans_prob
              /\ chains[c].n_states = NRows(r.trans_prob)
    /\ hsim.built =>
          \A i \in 1..Len(hsim.bottom_level_hmms) :
             /\ hsim.bottom_level_hmms[i] = hsim.top_level_hmm + i
             /\ chains[hsim.bottom_level_hmms[i]].owner = "bottom_level_hmms"

C27_Witness ==
    /\ hsim.built
    /\ hsim.n_calls = 2
    /\ \E c \in 1..Len(chains) :
          /\ Len(chains[c].calls) = 2
          /\ chains[c].calls[1].n_samples = MaxDraws
          /\ \E i, j \in 1..chains[c].n_states : ~IsPositive(chains[c].trans_prob[i][j])

\* the seeded hierarchy: its bottom-level chains, the indices at which chain
\* i is active in the last call, and the m-th of them
BottomChain(i) == chains[hsim.bottom_level_hmms[i]]
ActiveAt(i) == time_points_active(hsim.top_level_stc, i)
NthActive(i, m) == CHOOSE t \in ActiveAt(i) : Rank(ActiveAt(i), t) = m
\* no chain of the hierarchy was called on its own
OnlyHierarchyCalls ==
    \A c \in 1..Len(chains) : Len(chains[c].calls) = hsim.n_calls

\* C24: one generate_states(N) call of the hierarchy asks the top-level chain
\* for N samples, then every bottom-level chain once, in index order, for N
\* samples, also a chain active nowhere; the composite holds, at the indices
\* where a chain is active, the first rows of that chain's one sequence.
C24_EveryChainAskedOnce ==
    hsim.built =>
        LET K == Len(hsim.bottom_level_hmms)
            N == hsim.n_samples
        IN  /\ hsim.asked = <<<<hsim.top_level_hmm, N>>>>
                              \o [i \in 1..K |-> <<hsim.bottom_level_hmms[i], N>>]
            /\ OnlyHierarchyCalls =>
                  \A i \in 1..K :
                     /\ BottomChain(i).calls[hsim.n_calls].n_samples = N
                     /\ Len(LastOut(BottomChain(i))) = N
                     /\ \A m \in 1..Cardinality(ActiveAt(i)) :
                           hsim.stc[NthActive(i, m)] = LastOut(BottomChain(i))[m]

\* a chain active nowhere is sampled all the same, in both calls
C24_Witness ==
    /\ hsim.built
    /\ hsim.n_samples = MaxDraws
    /\ OnlyHierarchyCalls
    /\ hsim.n_calls = 2
    /\ \E i \in 1..Len(hsim.bottom_level_hmms) :
          /\ ActiveAt(i) = {}
          /\ Len(LastOut(BottomChain(i))) = MaxDraws
          /\ BottomChain(i).pos = 2 * MaxDraws * MaxStates

\* C28: the composite labels at the indices where bottom-level chain k is
\* active, in increasing order, start with label 0 and every consecutive pair
\* has a positive entry in chain k's matrix, also across a gap.
C28_ActiveLabelsAreATrajectory ==
    hsim.built =>
        \A k \in 1..Len(hsim.bottom_level_hmms) :
            LET n == Cardinality(ActiveAt(k))
                sub == [m \in 1..n |-> LabelOf(hsim.stc[NthActive(k, m)])]
            IN  /\ n >= 1 => sub[1] = 0
                /\ \A m \in 2..n :
                      IsPositive(BottomChain(k).trans_prob[sub[m - 1] + 1][sub[m] + 1])

\* a chain active before and after a gap, moving to its next label across it
C28_Witness ==
    /\ hsim.built
    /\ hsim.n_samples = MaxDraws
    /\ \E k \in 1..Len(hsim.bottom_level_hmms) :
          /\ ActiveAt(k) = {1, MaxDraws}
          /\ LabelOf(hsim.stc[1]) = 0
          /\ LabelOf(hsim.stc[MaxDraws]) = 1

\* C29: on every simulation class a lookup of a name not set on the simulation
\* itself is answered by the observation model when the observation model has
\* the name, otherwise by the chain when the chain has it (for the classes
\* that hold one chain), and a name of neither ends with AttributeError
\* 'No attribute called <name>'; no lookup ends with any other exception.
LookupDone == lookup.called /\ lookup.outcome \in {"returned", "raised"}
ForwardedLookup == LookupDone /\ lookup.attr \notin OwnAttrs(lookup.cls)
HoldsOneChain(cls) == cls \in {"HMM_MAR", "HMM_MVN", "HMM_Sine"}
NoAttributeCalled(name) ==
    /\ lookup.outcome = "raised"
    /\ lookup.exc = "AttributeError"
    /\ lookup.message = <<"No attribute called", name>>
C29_LookupForwardedOrAttributeError ==
    ForwardedLookup =>
        /\ lookup.attr \in ObsModAttrs(lookup.cls) =>
              lookup.outcome = "returned" /\ lookup.via = "obs_mod"
        /\ (/\ lookup.attr \notin ObsModAttrs(lookup.cls)
            /\ lookup.attr \in ChainAttrs
            /\ HoldsOneChain(lookup.cls)) =>
              lookup.outcome = "returned" /\ lookup.via = "hmm"
        /\ (lookup.attr \notin ObsModAttrs(lookup.cls) /\ lookup.attr \notin ChainAttrs) =>
              NoAttributeCalled(lookup.attr)
        /\ lookup.outcome = "raised" => NoAttributeCalled(lookup.attr)

====
